---- MODULE Spec2Model ----
(***************************************************************************)
(* Model of src/index.js: a node-cron job that, once a minute, reads two   *)
(* order counts from the database with one aggregate query and publishes   *)
(* each of them as a GAUGE point to Cloud Monitoring.                      *)
(*                                                                         *)
(* JavaScript runs one job at a time, so one action is one run-to-         *)
(* completion job: the timer callback up to its first await, or the        *)
(* continuation that runs when an awaited promise settles.                 *)
(***************************************************************************)
EXTENDS Integers, Sequences, FiniteSets

\* ---------------------------------------------------------------- bounds
\* number of timer ticks (cycles) explored
MaxCycles == 2
\* clock units between two firings of the '* * * * *' schedule
CronInterval == 1
\* largest number of rows of the orders table
MaxOrders == 1

\* ------------------------------------------------------- configuration
projectId == "my-project"
customMetricType == "custom.googleapis.com/orders/backlog_count"
processedMetricType == "custom.googleapis.com/orders/processed_count"
\* Date.now() / 1000
MsPerSecond == 1000
\* parseInt(x, 10)
Radix == 10

VARIABLES
  now,        \* Date.now(), in clock units
  nextFire,   \* the clock value at which the schedule fires next
  scheduled,  \* the cron task is registered and the process is alive
  orders,     \* the orders table: how many rows are PENDING, PROCESSED
  nextCycle,  \* the number the next invocation of main gets
  cycle,      \* per invocation of main: where it is and its locals
  calls,      \* every invocation of publishMetric, in the order invoked
  backend,    \* the time series the monitoring backend has accepted
  log         \* per invocation of main, the console lines it wrote

vars == <<now, nextFire, scheduled, orders, nextCycle, cycle, calls, backend, log>>

Cycles == 1..MaxCycles

\* ------------------------------------------------------ JavaScript values
Undefined == [t |-> "undefined", s |-> <<>>]
Null == [t |-> "null", s |-> <<>>]
Str(s) == [t |-> "string", s |-> s]

NaN == [nan |-> TRUE, n |-> 0]
Num(n) == [nan |-> FALSE, n |-> n]

DigitChars == <<"0", "1", "2", "3", "4", "5", "6", "7", "8", "9">>
IsDigit(ch) == \E i \in 1..Radix : DigitChars[i] = ch
DigitVal(ch) == (CHOOSE i \in 1..Radix : DigitChars[i] = ch) - 1

\* String(v), as a sequence of characters
StringOf(v) ==
  CASE v.t = "undefined" -> <<"u", "n", "d", "e", "f", "i", "n", "e", "d">>
    [] v.t = "null" -> <<"n", "u", "l", "l">>
    [] OTHER -> v.s

RECURSIVE StripLeft(_)
StripLeft(s) == IF s # <<>> /\ Head(s) = " " THEN StripLeft(Tail(s)) ELSE s

RECURSIVE DigitPrefix(_)
DigitPrefix(s) ==
  IF s # <<>> /\ IsDigit(Head(s)) THEN <<Head(s)>> \o DigitPrefix(Tail(s)) ELSE <<>>

RECURSIVE DigitsValue(_)
DigitsValue(d) ==
  IF d = <<>> THEN 0
  ELSE DigitsValue(SubSeq(d, 1, Len(d) - 1)) * Radix + DigitVal(d[Len(d)])

\* parseInt(v, 10): leading blanks, an optional sign, then the longest run
\* of decimal digits; NaN when there is no digit.
parseInt(v) ==
  LET s == StripLeft(StringOf(v))
      signed == s # <<>> /\ Head(s) \in {"-", "+"}
      body == IF signed THEN Tail(s) ELSE s
      d == DigitPrefix(body)
  IN IF d = <<>> THEN NaN
     ELSE IF signed /\ Head(s) = "-" THEN Num(0 - DigitsValue(d))
     ELSE Num(DigitsValue(d))

\* x || 0 for a number x: NaN and 0 are falsy
OrZero(x) == IF x.nan \/ x.n = 0 THEN 0 ELSE x.n

\* the decimal text of a natural number (pg returns COUNT(*), a bigint, as text)
RECURSIVE NumberToString(_)
NumberToString(n) ==
  IF n < Radix THEN <<DigitChars[n + 1]>>
  ELSE NumberToString(n \div Radix) \o <<DigitChars[(n % Radix) + 1]>>

\* ------------------------------------------------------------ data source
\* The row the aggregate query yields on a table holding o.
CountRow(o) ==
  [backlog_count |-> Str(NumberToString(o.pending)),
   processed_count |-> Str(NumberToString(o.processed))]

\* Rows in which a column is missing, null or not a number.
OddRows(o) ==
  {[CountRow(o) EXCEPT !.backlog_count = Null],
   [CountRow(o) EXCEPT !.processed_count = Str(<<" ", "1", "x">>)],
   [backlog_count |-> Str(<<"x">>), processed_count |-> Undefined]}

\* What pool.query can resolve with on a table holding o: the aggregate row,
\* a row with a column missing, null or not a number, or no row at all.
QueryResults(o) ==
  {[rejected |-> FALSE, rows |-> <<row>>] : row \in {CountRow(o)} \cup OddRows(o)}
    \cup {[rejected |-> FALSE, rows |-> <<>>]}

QueryRejection == [rejected |-> TRUE, rows |-> <<>>]
NoResult == [rejected |-> FALSE, rows |-> <<>>]

\* getOrderCounts, from the settlement of pool.query on: the await throws when
\* the query rejects, and res.rows[0].backlog_count throws a TypeError when
\* there is no row; both land in the catch block, which rethrows.
getOrderCounts(res) ==
  IF res.rejected \/ Len(res.rows) = 0
  THEN [threw |-> TRUE, backlogCount |-> 0, processedCount |-> 0]
  ELSE [threw |-> FALSE,
        backlogCount |-> OrZero(parseInt(res.rows[1].backlog_count)),
        processedCount |-> OrZero(parseInt(res.rows[1].processed_count))]

\* ------------------------------------------------------------- console
Line(level, msg, value, type) ==
  [level |-> level, msg |-> msg, value |-> value, type |-> type]

\* ---------------------------------------------------------- publishMetric
\* Date.now() / 1000, kept exact as a fraction
Seconds(t) == [num |-> t, den |-> MsPerSecond]

projectPath(p) == "projects/" \o p

\* PublishRequest, were the timestamp the time of day (it wraps around)
\* instead of the time since the epoch
PublishRequestWrapped(metricValue, metricType, t) ==
  [name |-> projectPath(projectId),
   timeSeries |->
     << [metric |-> [type |-> metricType],
         resource |-> [type |-> "global", labels |-> [project_id |-> projectId]],
         points |->
           << [interval |-> [endTime |-> [seconds |-> Seconds(t % 2)]],
               value |-> [int64Value |-> metricValue]] >>,
         metricKind |-> "GAUGE",
         valueType |-> "INT64"] >>]

\* PublishRequest, were the metric type the backlog type whatever was passed
PublishRequestFixedType(metricValue, metricType, t) ==
  [name |-> projectPath(projectId),
   timeSeries |->
     << [metric |-> [type |-> customMetricType],
         resource |-> [type |-> "global", labels |-> [project_id |-> projectId]],
         points |->
           << [interval |-> [endTime |-> [seconds |-> Seconds(t)]],
               value |-> [int64Value |-> metricValue]] >>,
         metricKind |-> "GAUGE",
         valueType |-> "INT64"] >>]

\* The request publishMetric builds at clock value t.
PublishRequest(metricValue, metricType, t) ==
  [name |-> projectPath(projectId),
   timeSeries |->
     << [metric |-> [type |-> metricType],
         resource |-> [type |-> "global", labels |-> [project_id |-> projectId]],
         points |->
           << [interval |-> [endTime |-> [seconds |-> Seconds(t)]],
               value |-> [int64Value |-> metricValue]] >>,
         metricKind |-> "GAUGE",
         valueType |-> "INT64"] >>]

\* publishMetricCatch, were the catch block to rethrow what it caught
publishMetricCatchRethrow ==
  [line |-> Line("error", "Error publishing metric:", 0, ""),
   rethrow |-> TRUE,
   resubmit |-> FALSE]

\* publishMetricCatch, were the catch block to submit the request again
publishMetricCatchResubmit ==
  [line |-> Line("error", "Error publishing metric:", 0, ""),
   rethrow |-> FALSE,
   resubmit |-> TRUE]

\* publishMetricCatch, were the success line written after the try statement
\* and the error line dropped
publishMetricCatchMislog ==
  [line |-> Line("log", "Successfully published custom metric.", 0, ""),
   rethrow |-> FALSE,
   resubmit |-> FALSE]

\* The catch block of publishMetric: it logs, and neither rethrows nor
\* submits the request again.
publishMetricCatch ==
  [line |-> Line("error", "Error publishing metric:", 0, ""),
   rethrow |-> FALSE,
   resubmit |-> FALSE]

\* ------------------------------------------------------------------- main
\* mainCatch, were the catch block to rethrow what it caught
mainCatchRethrow ==
  [line |-> Line("error", "Error during cron job execution:", 0, ""),
   rethrow |-> TRUE,
   exit |-> FALSE]

\* mainCatch, were the catch block to end the process (process.exit(1))
mainCatchExit ==
  [line |-> Line("error", "Error during cron job execution:", 0, ""),
   rethrow |-> FALSE,
   exit |-> TRUE]

\* The catch block of main: it logs, and neither rethrows nor stops the
\* schedule or the process.
mainCatch ==
  [line |-> Line("error", "Error during cron job execution:", 0, ""),
   rethrow |-> FALSE,
   exit |-> FALSE]

\* PublishCalls, were the two metric types exchanged
PublishCallsSwapped(r) ==
  IF r.threw THEN <<>>
  ELSE << [metricValue |-> r.backlogCount, metricType |-> processedMetricType],
          [metricValue |-> r.processedCount, metricType |-> customMetricType] >>

\* PublishCalls, were the publish calls made outside the try block
PublishCallsAlways(r) ==
  << [metricValue |-> r.backlogCount, metricType |-> customMetricType],
     [metricValue |-> r.processedCount, metricType |-> processedMetricType] >>

\* PublishCalls, were the processed count kept in a module-level variable
\* that only the first cycle sets
PublishCallsCached(r) ==
  IF r.threw THEN <<>>
  ELSE << [metricValue |-> r.backlogCount, metricType |-> customMetricType],
          [metricValue |-> cycle[1].processedCount, metricType |-> processedMetricType] >>

\* The publishMetric invocations main makes once getOrderCounts has returned
\* r: none when it threw, as the throw leaves the try block.
PublishCalls(r) ==
  IF r.threw THEN <<>>
  ELSE << [metricValue |-> r.backlogCount, metricType |-> customMetricType],
          [metricValue |-> r.processedCount, metricType |-> processedMetricType] >>

NotStarted ==
  [pc |-> "notStarted", fetch |-> "none", queries |-> 0, res |-> NoResult,
   backlogCount |-> 0, processedCount |-> 0, promise |-> "none"]

\* main's promise after its catch block ran
Caught(cy) ==
  [cy EXCEPT !.pc = "done",
             !.promise = IF mainCatch.rethrow THEN "rejected" ELSE "fulfilled"]

Init ==
  /\ now = 0
  /\ nextFire = CronInterval
  /\ scheduled = TRUE
  /\ orders = [pending |-> 0, processed |-> 0]
  /\ nextCycle = 1
  /\ cycle = [c \in Cycles |-> NotStarted]
  /\ calls = <<>>
  /\ backend = {}
  /\ log = [c \in Cycles |-> <<>>]

\* ------------------------------------------------------------ environment
\* The clock advances; the timer fires when the clock reaches nextFire.
Tick ==
  /\ now < nextFire
  /\ now' = now + 1
  /\ UNCHANGED <<nextFire, scheduled, orders, nextCycle, cycle, calls, backend, log>>

\* Another client inserts a PENDING order.
InsertOrder ==
  /\ orders.pending + orders.processed < MaxOrders
  /\ orders' = [orders EXCEPT !.pending = @ + 1]
  /\ UNCHANGED <<now, nextFire, scheduled, nextCycle, cycle, calls, backend, log>>

\* Another client marks a PENDING order PROCESSED.
ProcessOrder ==
  /\ orders.pending > 0
  /\ orders' = [pending |-> orders.pending - 1, processed |-> orders.processed + 1]
  /\ UNCHANGED <<now, nextFire, scheduled, nextCycle, cycle, calls, backend, log>>

\* ------------------------------------------------------------- the program
\* main, invoked as cycle c, up to the await of pool.query in getOrderCounts
MainStart(c) ==
  /\ nextCycle' = c + 1
  /\ cycle' = [cycle EXCEPT ![c] =
                 [NotStarted EXCEPT !.pc = "awaitQuery", !.queries = 1,
                                    !.promise = "pending"]]
  /\ log' = [log EXCEPT ![c] =
               << Line("log", "Cron job execution started: Fetching and publishing metrics...", 0, ""),
                  Line("log", "Fetching order counts from AlloyDB...", 0, "") >>]

InFlight(c) == cycle[c].pc \in {"awaitQuery", "awaitPublish"}

\* CronTick, were a tick skipped while an earlier cycle is in flight
CronTickSkipIfRunning ==
  /\ scheduled
  /\ now = nextFire
  /\ nextCycle <= MaxCycles
  /\ nextFire' = nextFire + CronInterval
  /\ IF \E c \in Cycles : InFlight(c)
     THEN UNCHANGED <<nextCycle, cycle, log>>
     ELSE MainStart(nextCycle)
  /\ UNCHANGED <<now, scheduled, orders, calls, backend>>

\* cron.schedule('* * * * *', main): the timer fires and invokes main, whatever
\* the earlier invocations are doing.
CronTick ==
  /\ scheduled
  /\ now = nextFire
  /\ nextCycle <= MaxCycles
  /\ nextFire' = nextFire + CronInterval
  /\ MainStart(nextCycle)
  /\ UNCHANGED <<now, scheduled, orders, calls, backend>>

\* The continuation of cycle c when pool.query settles with res: the rest of
\* getOrderCounts, then main up to the await of Promise.all, both
\* publishMetric invocations running up to their await of createTimeSeries.
AfterQuery(c, res) ==
  LET r == getOrderCounts(res)
      pubs == PublishCalls(r)
      newCalls == [i \in 1..Len(pubs) |->
                     [cycle |-> c,
                      metricValue |-> pubs[i].metricValue,
                      metricType |-> pubs[i].metricType,
                      at |-> now,
                      request |-> PublishRequest(pubs[i].metricValue, pubs[i].metricType, now),
                      response |-> "none",
                      state |-> "awaiting"]]
      pubLines == [i \in 1..Len(pubs) |->
                     Line("log", "Publishing metric value", pubs[i].metricValue,
                          pubs[i].metricType)]
      got == [cycle[c] EXCEPT !.res = res,
                              !.fetch = IF r.threw THEN "failed" ELSE "ok",
                              !.backlogCount = r.backlogCount,
                              !.processedCount = r.processedCount]
  IN /\ calls' = calls \o newCalls
     /\ IF r.threw
        THEN /\ cycle' = [cycle EXCEPT ![c] = Caught(got)]
             /\ log' = [log EXCEPT ![c] =
                          @ \o << Line("error", "Error fetching order counts:", 0, ""),
                                  mainCatch.line >> \o pubLines]
             /\ scheduled' = (scheduled /\ ~mainCatch.exit)
        ELSE /\ cycle' = [cycle EXCEPT ![c] =
                            IF Len(pubs) = 0
                            THEN [got EXCEPT !.pc = "done", !.promise = "fulfilled"]
                            ELSE [got EXCEPT !.pc = "awaitPublish"]]
             /\ log' = [log EXCEPT ![c] =
                          @ \o << Line("log", "Current backlog count:", r.backlogCount, ""),
                                  Line("log", "Current processed count:", r.processedCount, "") >>
                            \o pubLines
                            \o (IF Len(pubs) = 0
                                THEN << Line("log", "Cron job execution finished successfully.", 0, "") >>
                                ELSE <<>>)]
             /\ scheduled' = scheduled
     /\ UNCHANGED <<now, nextFire, orders, nextCycle, backend>>

\* pool.query resolves: the database answered the query of cycle c.
QueryResolve(c) ==
  /\ cycle[c].pc = "awaitQuery"
  /\ \E res \in QueryResults(orders) : AfterQuery(c, res)

\* pool.query rejects: no connection, or the query failed.
QueryReject(c) ==
  /\ cycle[c].pc = "awaitQuery"
  /\ AfterQuery(c, QueryRejection)

\* PromiseAll, were main to await Promise.any: it goes on at the first
\* invocation that has fulfilled
PromiseAny(cs, c) ==
  \E j \in DOMAIN cs : cs[j].cycle = c /\ cs[j].state = "fulfilled"

\* Promise.all over the publishMetric invocations cs of cycle c fulfils once
\* every one of them has fulfilled.
PromiseAll(cs, c) ==
  \A j \in DOMAIN cs : cs[j].cycle = c => cs[j].state = "fulfilled"

\* Store, were an accepted request to replace what the backend holds
StoreLatest(held, k) ==
  {[call |-> k, series |-> calls[k].request.timeSeries[i]] :
     i \in DOMAIN calls[k].request.timeSeries}

\* What the backend holds once it has accepted the request of invocation k:
\* createTimeSeries adds the request's time series to those held.
Store(held, k) ==
  held \cup {[call |-> k, series |-> calls[k].request.timeSeries[i]] :
               i \in DOMAIN calls[k].request.timeSeries}

\* The continuation of publishMetric invocation k when createTimeSeries
\* settles, and of main when that settles Promise.all.
AfterCreateTimeSeries(k, accepted) ==
  LET c == calls[k].cycle
      catch == publishMetricCatch
      outcome == IF accepted \/ ~catch.rethrow THEN "fulfilled" ELSE "rejected"
      settled == [calls EXCEPT ![k].state = outcome,
                               ![k].response = IF accepted THEN "ok" ELSE "failed"]
      again == IF ~accepted /\ catch.resubmit
               THEN << [calls[k] EXCEPT !.state = "awaiting", !.response = "none"] >>
               ELSE <<>>
      calls2 == settled \o again
      joined == PromiseAll(calls2, c)
      own == IF accepted
             THEN Line("log", "Successfully published custom metric.", 0, "")
             ELSE catch.line
  IN /\ calls' = calls2
     /\ backend' = IF accepted THEN Store(backend, k) ELSE backend
     /\ IF cycle[c].pc = "awaitPublish" /\ outcome = "rejected"
        THEN \* Promise.all rejects with the first rejection
             /\ cycle' = [cycle EXCEPT ![c] = Caught(cycle[c])]
             /\ log' = [log EXCEPT ![c] = @ \o <<own, mainCatch.line>>]
             /\ scheduled' = (scheduled /\ ~mainCatch.exit)
        ELSE IF cycle[c].pc = "awaitPublish" /\ joined
        THEN /\ cycle' = [cycle EXCEPT ![c] = [@ EXCEPT !.pc = "done", !.promise = "fulfilled"]]
             /\ log' = [log EXCEPT ![c] =
                          @ \o <<own, Line("log", "Cron job execution finished successfully.", 0, "")>>]
             /\ scheduled' = scheduled
        ELSE /\ cycle' = cycle
             /\ log' = [log EXCEPT ![c] = Append(@, own)]
             /\ scheduled' = scheduled
     /\ UNCHANGED <<now, nextFire, orders, nextCycle>>

\* createTimeSeries resolves: the backend accepted the request.
CreateTimeSeriesResolve(k) ==
  /\ k \in DOMAIN calls
  /\ calls[k].state = "awaiting"
  /\ AfterCreateTimeSeries(k, TRUE)

\* createTimeSeries rejects: network, authentication or quota.
CreateTimeSeriesReject(k) ==
  /\ k \in DOMAIN calls
  /\ calls[k].state = "awaiting"
  /\ AfterCreateTimeSeries(k, FALSE)

\* At most this many publishMetric invocations are ever in calls.
CallIds == 1..(3 * MaxCycles)

Next ==
  \/ Tick
  \/ InsertOrder
  \/ ProcessOrder
  \/ CronTick
  \/ \E c \in Cycles : QueryResolve(c)
  \/ \E c \in Cycles : QueryReject(c)
  \/ \E k \in CallIds : CreateTimeSeriesResolve(k)
  \/ \E k \in CallIds : CreateTimeSeriesReject(k)

Spec == Init /\ [][Next]_vars

\* Every database query and every metric submission eventually returns.
Fairness ==
  /\ \A c \in Cycles : WF_vars(QueryResolve(c) \/ QueryReject(c))
  /\ \A k \in CallIds : WF_vars(CreateTimeSeriesResolve(k) \/ CreateTimeSeriesReject(k))

LiveSpec == Init /\ [][Next]_vars /\ Fairness

\* ------------------------------------------------------------ properties
Range(s) == {s[i] : i \in DOMAIN s}

\* the publishMetric invocations made by cycle c
CallIdsOf(c) == {k \in DOMAIN calls : calls[k].cycle = c}

CallsWith(c, value, type) ==
  {k \in CallIdsOf(c) : calls[k].metricValue = value /\ calls[k].metricType = type}

Accepted(k) ==
  \A i \in DOMAIN calls[k].request.timeSeries :
    [call |-> k, series |-> calls[k].request.timeSeries[i]] \in backend

IsPublishError(l) == l.level = "error" /\ l.msg = "Error publishing metric:"
IsPublishSuccess(l) == l.level = "log" /\ l.msg = "Successfully published custom metric."

\* C1: a cycle whose fetch returned backlog b and processed p invokes
\* publishMetric exactly once with (b, backlog metric type), exactly once with
\* (p, processed metric type), and makes no other publish call.
C1_PublishesBothCounts ==
  \A c \in Cycles :
    cycle[c].fetch = "ok" =>
      /\ Cardinality(CallsWith(c, cycle[c].backlogCount, customMetricType)) = 1
      /\ Cardinality(CallsWith(c, cycle[c].processedCount, processedMetricType)) = 1
      /\ Cardinality(CallIdsOf(c)) = 2

C1_Witness ==
  \E c \in Cycles :
    /\ cycle[c].fetch = "ok"
    /\ cycle[c].pc = "done"
    /\ cycle[c].backlogCount = 1
    /\ cycle[c].processedCount = 0
    /\ CallsWith(c, 1, customMetricType) # {}
    /\ CallsWith(c, 0, processedMetricType) # {}

\* C2: a cycle whose query rejected, or whose getOrderCounts threw, makes no
\* publish call: no publishMetric invocation and no createTimeSeries request
\* belongs to it, and nothing of it reaches the backend.
C2_NoPublishAfterFailedFetch ==
  \A c \in Cycles :
    cycle[c].fetch = "failed" =>
      /\ CallIdsOf(c) = {}
      /\ \A l \in Range(log[c]) : l.msg # "Publishing metric value"
      /\ \A b \in backend : calls[b.call].cycle # c

C2_Witness ==
  \E c, d \in Cycles :
    /\ cycle[c].fetch = "failed"
    /\ cycle[c].res = QueryRejection
    /\ cycle[c].pc = "done"
    /\ cycle[d].fetch = "ok"
    /\ CallIdsOf(d) # {}

\* C3: a createTimeSeries failure is logged and stays inside publishMetric:
\* the invocation's promise fulfils, the cycle's other metric is submitted all
\* the same (and held by the backend once accepted), main's promise never
\* rejects, and the cycle is done once both invocations have settled.
C3_PublishFailureIsolated ==
  \A k \in DOMAIN calls :
    calls[k].response = "failed" =>
      LET c == calls[k].cycle
      IN /\ calls[k].state = "fulfilled"
         /\ \E l \in Range(log[c]) : IsPublishError(l)
         /\ \E j \in CallIdsOf(c) : calls[j].metricType # calls[k].metricType
         /\ \A j \in CallIdsOf(c) : calls[j].response = "ok" => Accepted(j)
         /\ cycle[c].promise # "rejected"
         /\ (\A j \in CallIdsOf(c) : calls[j].response # "none")
              => cycle[c].pc = "done" /\ cycle[c].promise = "fulfilled"

\* position of the first publish error (publish success) line of s, 0 if none
FirstError(s) ==
  IF \E i \in DOMAIN s : IsPublishError(s[i])
  THEN CHOOSE i \in DOMAIN s : IsPublishError(s[i]) /\ \A j \in 1..(i - 1) : ~IsPublishError(s[j])
  ELSE 0
FirstSuccess(s) ==
  IF \E i \in DOMAIN s : IsPublishSuccess(s[i])
  THEN CHOOSE i \in DOMAIN s : IsPublishSuccess(s[i]) /\ \A j \in 1..(i - 1) : ~IsPublishSuccess(s[j])
  ELSE 0

\* one cycle lost its backlog point first and then had its processed point
\* accepted; another had its backlog point accepted first and then lost its
\* processed point; both are done and fulfilled
C3_Witness ==
  \E c, d \in Cycles :
    /\ cycle[c].pc = "done" /\ cycle[c].promise = "fulfilled"
    /\ cycle[d].pc = "done" /\ cycle[d].promise = "fulfilled"
    /\ \E k, j \in CallIdsOf(c) :
         /\ calls[k].metricType = customMetricType /\ calls[k].response = "failed"
         /\ calls[j].metricType = processedMetricType /\ calls[j].response = "ok"
         /\ Accepted(j)
    /\ 0 < FirstError(log[c]) /\ FirstError(log[c]) < FirstSuccess(log[c])
    /\ \E k, j \in CallIdsOf(d) :
         /\ calls[k].metricType = customMetricType /\ calls[k].response = "ok"
         /\ calls[j].metricType = processedMetricType /\ calls[j].response = "failed"
         /\ Accepted(k)
    /\ 0 < FirstSuccess(log[d]) /\ FirstSuccess(log[d]) < FirstError(log[d])

\* a column value that is the decimal text of a number
IsNumeral(v) ==
  /\ v.t = "string"
  /\ v.s # <<>>
  /\ \A i \in DOMAIN v.s : IsDigit(v.s[i])

\* C4: whenever pool.query returned without an error, getOrderCounts returns
\* a pair of counts and does not fail, and a column that is missing, null or
\* not a number (a result with no row included) counts as zero.
C4_MissingResultsAreZero ==
  \A c \in Cycles :
    (cycle[c].pc \in {"awaitPublish", "done"} /\ ~cycle[c].res.rejected) =>
      /\ cycle[c].fetch = "ok"
      /\ \/ Len(cycle[c].res.rows) = 0
         \/ ~IsNumeral(cycle[c].res.rows[1].backlog_count)
         => cycle[c].backlogCount = 0
      /\ \/ Len(cycle[c].res.rows) = 0
         \/ ~IsNumeral(cycle[c].res.rows[1].processed_count)
         => cycle[c].processedCount = 0

\* the count getOrderCounts reads from a column of the first row of res
CountOf(res, column) ==
  IF column = "backlog_count"
  THEN OrZero(parseInt(res.rows[1].backlog_count))
  ELSE OrZero(parseInt(res.rows[1].processed_count))

\* C5: every cycle issues one query, and both values it publishes are the
\* counts of the one result that query of its own resolved with, also while
\* another cycle is in flight.
C5_CountsFromOneQuery ==
  \A c \in Cycles :
    /\ cycle[c].queries <= 1
    /\ \A k \in CallIdsOf(c) :
         /\ cycle[c].queries = 1
         /\ cycle[c].fetch = "ok"
         /\ Len(cycle[c].res.rows) = 1
         /\ calls[k].metricType \in {customMetricType, processedMetricType}
         /\ calls[k].metricType = customMetricType
              => calls[k].metricValue = CountOf(cycle[c].res, "backlog_count")
         /\ calls[k].metricType = processedMetricType
              => calls[k].metricValue = CountOf(cycle[c].res, "processed_count")

\* two cycles in flight at once, their queries having seen different tables
C5_Witness ==
  \E c, d \in Cycles :
    /\ cycle[c].pc = "awaitPublish"
    /\ cycle[d].pc = "awaitPublish"
    /\ cycle[c].res.rows = <<CountRow([pending |-> 1, processed |-> 0])>>
    /\ cycle[d].res.rows = <<CountRow([pending |-> 0, processed |-> 1])>>
    /\ CallsWith(c, 1, customMetricType) # {} /\ CallsWith(c, 0, processedMetricType) # {}
    /\ CallsWith(d, 0, customMetricType) # {} /\ CallsWith(d, 1, processedMetricType) # {}

\* the timestamp of the point of publishMetric invocation k
Timestamp(k) == calls[k].request.timeSeries[1].points[1].interval.endTime.seconds
PointValue(k) == calls[k].request.timeSeries[1].points[1].value.int64Value
Less(a, b) == a.num * b.den < b.num * a.den

\* C6 as stated: the points of one metric type carry strictly increasing
\* timestamps in the order the timer started their cycles.
C6_TimestampsIncreaseInCycleOrder ==
  \A j, k \in DOMAIN calls :
    (calls[j].metricType = calls[k].metricType /\ calls[j].cycle < calls[k].cycle)
      => Less(Timestamp(j), Timestamp(k))

\* C6 as amended: the points of one metric type carry timestamps that never
\* decrease in the order of the publishMetric invocations, and cycles that
\* fetched the same count submit the same value.
C6_TimestampsFollowCallOrder ==
  \A j, k \in DOMAIN calls :
    calls[j].metricType = calls[k].metricType =>
      /\ j < k => ~Less(Timestamp(k), Timestamp(j))
      /\ (/\ calls[j].metricType = customMetricType
          /\ cycle[calls[j].cycle].backlogCount = cycle[calls[k].cycle].backlogCount)
           => PointValue(j) = PointValue(k)
      /\ (/\ calls[j].metricType = processedMetricType
          /\ cycle[calls[j].cycle].processedCount = cycle[calls[k].cycle].processedCount)
           => PointValue(j) = PointValue(k)

\* a slow cycle overlapped the next tick: the later cycle published first,
\* the same value, and the earlier cycle's point carries the later timestamp
C6_Witness ==
  \E j, k \in DOMAIN calls :
    /\ j < k
    /\ calls[j].metricType = calls[k].metricType
    /\ calls[j].cycle > calls[k].cycle
    /\ PointValue(j) = PointValue(k)
    /\ Less(Timestamp(j), Timestamp(k))

MetricTypes == {customMetricType, processedMetricType}

\* C7: a cycle issues one query and at most one createTimeSeries request per
\* metric type, each request holds one time series with one point, a failed
\* request has no second attempt in any cycle, and a cycle whose fetch failed
\* is over without a second query.
C7_NoRetry ==
  /\ \A c \in Cycles :
       /\ cycle[c].queries <= 1
       /\ cycle[c].fetch = "failed" => cycle[c].pc = "done"
       /\ \A type \in MetricTypes :
            Cardinality({k \in CallIdsOf(c) : calls[k].metricType = type}) <= 1
  /\ \A k \in DOMAIN calls :
       /\ Len(calls[k].request.timeSeries) = 1
       /\ Len(calls[k].request.timeSeries[1].points) = 1
       /\ calls[k].response = "failed" => calls[k].state # "awaiting"
  /\ Len(calls) <= 2 * Cardinality({c \in Cycles : cycle[c].fetch = "ok"})

\* a cycle lost a submission and is done, and a later cycle has run to its end
C7_Witness ==
  \E c, d \in Cycles :
    /\ c < d
    /\ cycle[c].pc = "done"
    /\ \E k \in CallIdsOf(c) : calls[k].response = "failed"
    /\ cycle[d].pc = "done"
    /\ cycle[d].fetch = "ok"
    /\ Len(calls) = 4

\* C8: given that every query and every submission returns, a cycle the
\* timer started ends, with main's promise fulfilled, whatever failed.
C8_CycleReturnsToIdle ==
  \A c \in Cycles :
    (cycle[c].pc # "notStarted")
      ~> (cycle[c].pc = "done" /\ cycle[c].promise = "fulfilled")

\* one cycle ended after a failed fetch, another after a failed submission
C8_Witness ==
  \E c, d \in Cycles :
    /\ cycle[c].pc = "done" /\ cycle[c].promise = "fulfilled" /\ cycle[c].fetch = "failed"
    /\ cycle[d].pc = "done" /\ cycle[d].promise = "fulfilled"
    /\ \E k \in CallIdsOf(d) : calls[k].response = "failed"

Failed(c) ==
  \/ cycle[c].fetch = "failed"
  \/ \E k \in CallIdsOf(c) : calls[k].response = "failed"

\* C9: after failed cycles the schedule is still registered, and a tick that
\* is due starts a cycle.
C9_FailuresKeepSchedule ==
  (\E c \in Cycles : Failed(c)) =>
    /\ scheduled
    /\ (now = nextFire /\ nextCycle \in Cycles) => ENABLED CronTick

\* the cycle started right after a failed cycle (its fetch or one of its
\* submissions failed) fetched and had both its points accepted
C9_Witness ==
  \E c \in Cycles :
    /\ (c > 1 /\ Failed(c - 1))
    /\ cycle[c].pc = "done"
    /\ cycle[c].fetch = "ok"
    /\ \A k \in CallIdsOf(c) : calls[k].response = "ok" /\ Accepted(k)
    /\ CallIdsOf(c) # {}

\* C10: a tick that is due starts a cycle whatever the earlier cycles are
\* doing, and every firing of the timer invokes main as a new cycle.
C10_EveryTickStartsACycle ==
  /\ []((scheduled /\ now = nextFire /\ nextCycle \in Cycles) => ENABLED CronTick)
  /\ [][nextFire' # nextFire =>
          /\ now = nextFire
          /\ cycle[nextCycle].pc = "notStarted"
          /\ cycle'[nextCycle].pc = "awaitQuery"
          /\ nextCycle' = nextCycle + 1
          /\ \A c \in Cycles \ {nextCycle} : cycle'[c] = cycle[c]]_vars

\* the second cycle started while the first was awaiting its publish calls
C10_Witness ==
  /\ cycle[1].pc = "awaitPublish"
  /\ cycle[2].pc = "awaitQuery"
  /\ \E k \in CallIdsOf(1) : calls[k].state = "awaiting"

IsFinished(l) == l.level = "log" /\ l.msg = "Cron job execution finished successfully."
IsCycleError(l) == l.level = "error" /\ l.msg = "Error during cron job execution:"
IsPublishing(l) == l.level = "log" /\ l.msg = "Publishing metric value"
IsOutcome(l) == IsPublishError(l) \/ IsPublishSuccess(l)

\* positions of the lines of cycle c's console output
ErrorLines(c) == {i \in DOMAIN log[c] : IsPublishError(log[c][i])}
SuccessLines(c) == {i \in DOMAIN log[c] : IsPublishSuccess(log[c][i])}
FinishedLines(c) == {i \in DOMAIN log[c] : IsFinished(log[c][i])}
CycleErrorLines(c) == {i \in DOMAIN log[c] : IsCycleError(log[c][i])}
PublishingLines(c) == {i \in DOMAIN log[c] : IsPublishing(log[c][i])}

Settled(k) == calls[k].response # "none"

\* C11: a cycle has issued both submissions before either of them has
\* finished, and it writes its completion line only after both submissions
\* have finished, each with success or failure.
C11_BothIssuedThenJoined ==
  \A c \in Cycles :
    /\ CallIdsOf(c) # {} =>
         \A type \in MetricTypes : \E k \in CallIdsOf(c) : calls[k].metricType = type
    /\ \A i \in FinishedLines(c) :
         /\ Cardinality(CallIdsOf(c)) = 2
         /\ \A k \in CallIdsOf(c) : Settled(k)
         /\ Cardinality({j \in ErrorLines(c) \cup SuccessLines(c) : j < i}) = 2

\* both submissions of a cycle in flight at once; another cycle has written
\* its completion line after its processed submission failed first and its
\* backlog submission was accepted second
C11_Witness ==
  \E c, d \in Cycles :
    /\ Cardinality({k \in CallIdsOf(c) : calls[k].state = "awaiting"}) = 2
    /\ FinishedLines(d) # {}
    /\ \E k, j \in CallIdsOf(d) :
         /\ calls[k].metricType = customMetricType /\ calls[k].response = "ok"
         /\ calls[j].metricType = processedMetricType /\ calls[j].response = "failed"
    /\ FirstError(log[d]) < FirstSuccess(log[d])

\* the interval of the point of invocation k
Interval(k) == calls[k].request.timeSeries[1].points[1].interval

C13_OneOutcomeLinePerCall ==
  \A c \in Cycles :
    cycle[c].fetch = "ok" =>
      /\ Cardinality(ErrorLines(c))
           = Cardinality({k \in CallIdsOf(c) : calls[k].response = "failed"})
      /\ Cardinality(SuccessLines(c))
           = Cardinality({k \in CallIdsOf(c) : calls[k].response = "ok"})

\* a finished cycle whose backlog submission failed and whose processed
\* submission succeeded: one error line, one success line
C13_Witness ==
  \E c \in Cycles :
    /\ cycle[c].pc = "done"
    /\ \E k, j \in CallIdsOf(c) :
         /\ calls[k].metricType = customMetricType /\ calls[k].response = "failed"
         /\ calls[j].metricType = processedMetricType /\ calls[j].response = "ok"
    /\ Cardinality(ErrorLines(c)) = 1
    /\ Cardinality(SuccessLines(c)) = 1
    /\ scheduled

\* C14: a step of a cycle (anything but another client's insert or update)
\* leaves the orders table as it is, and no step removes or alters a time
\* series the backend holds.
C14_ReadOnlyAndAppendOnly ==
  [][/\ (\/ cycle' # cycle
         \/ calls' # calls
         \/ log' # log
         \/ backend' # backend
         \/ nextCycle' # nextCycle)
          => orders' = orders
     /\ backend \subseteq backend']_vars

\* the backend holds the points of two cycles, fetched from a table that
\* other clients changed in between
C14_Witness ==
  /\ \E a, b \in backend : calls[a.call].cycle # calls[b.call].cycle
  /\ \E c, d \in Cycles :
       /\ cycle[c].fetch = "ok" /\ cycle[d].fetch = "ok"
       /\ cycle[c].res.rows # cycle[d].res.rows
       /\ cycle[c].res.rows = <<CountRow([pending |-> 1, processed |-> 0])>>
       /\ cycle[d].res.rows = <<CountRow(orders)>>
  /\ orders = [pending |-> 0, processed |-> 1]

FetchedLines(c) ==
  {i \in DOMAIN log[c] : log[c][i].level = "log" /\ log[c][i].msg = "Current processed count:"}

\* C15: a cycle issues no publish call before its fetch has returned a pair
\* of counts, and the last line of a cycle that is over comes after its fetch
\* and, when it is the completion line, after both publish calls and their
\* outcomes.
C15_FetchThenPublishThenLog ==
  \A c \in Cycles :
    /\ cycle[c].fetch # "ok" => (CallIdsOf(c) = {} /\ PublishingLines(c) = {})
    /\ \A i \in PublishingLines(c) : \E j \in FetchedLines(c) : j < i
    /\ cycle[c].pc = "done" =>
         /\ log[c] # <<>>
         /\ IsFinished(log[c][Len(log[c])]) \/ IsCycleError(log[c][Len(log[c])])
         /\ \E j \in DOMAIN log[c] :
              /\ j < Len(log[c])
              /\ log[c][j].msg \in {"Current processed count:", "Error fetching order counts:"}
    /\ \A i \in FinishedLines(c) :
         /\ i = Len(log[c])
         /\ Cardinality(PublishingLines(c)) = 2
         /\ \A j \in PublishingLines(c) \cup FetchedLines(c) \cup ErrorLines(c) \cup SuccessLines(c) :
              j < i

\* a finished cycle: start, fetch, two counts, two publish calls, two
\* outcomes, completion
C15_Witness ==
  \E c \in Cycles :
    /\ cycle[c].pc = "done"
    /\ cycle[c].fetch = "ok"
    /\ Len(log[c]) = 9
    /\ FetchedLines(c) = {4}
    /\ PublishingLines(c) = {5, 6}
    /\ ErrorLines(c) \cup SuccessLines(c) = {7, 8}
    /\ FinishedLines(c) = {9}

\* C16: the completion line is written, once, in the cycles whose fetch
\* succeeded, whatever became of the submissions, and the cycle's error line,
\* once, in the cycles whose fetch failed.
C16_CompletionLineIffFetched ==
  \A c \in Cycles :
    /\ Cardinality(FinishedLines(c)) <= 1
    /\ Cardinality(CycleErrorLines(c)) <= 1
    /\ FinishedLines(c) # {} => cycle[c].fetch = "ok"
    /\ CycleErrorLines(c) # {} => cycle[c].fetch = "failed"
    /\ cycle[c].fetch = "failed" => CycleErrorLines(c) # {}
    /\ (cycle[c].fetch = "ok" /\ \A k \in CallIdsOf(c) : Settled(k)) => FinishedLines(c) # {}
    /\ cycle[c].pc = "done" => (FinishedLines(c) # {} \/ CycleErrorLines(c) # {})

\* one cycle wrote the completion line though both its submissions failed,
\* another wrote the error line after its query was rejected
C16_Witness ==
  \E c, d \in Cycles :
    /\ cycle[c].fetch = "ok"
    /\ Cardinality(CallIdsOf(c)) = 2
    /\ \A k \in CallIdsOf(c) : calls[k].response = "failed"
    /\ FinishedLines(c) # {} /\ CycleErrorLines(c) = {}
    /\ cycle[d].res = QueryRejection
    /\ CycleErrorLines(d) # {} /\ FinishedLines(d) = {}

====
